---- MODULE Spec2Model ----
(***************************************************************************)
(* Employee / attendance / payroll-approval canister                       *)
(* (src/icp_rust_boilerplate_backend/src/lib.rs).                          *)
(*                                                                         *)
(* The canister owns four stable regions: ID_COUNTER, EMPLOYEE_STORAGE,    *)
(* ATTENDANCE_STORAGE and APPROVAL_STORAGE.  Every entry point runs to     *)
(* completion as one message, so each entry point is one action.  A trap   *)
(* (Rust panic) discards the message's writes.                             *)
(*                                                                         *)
(* Numbers.  f64 values are modelled as exact fractions in lowest terms    *)
(* ([num, den], den > 0); the inputs used keep every quotient and product  *)
(* exactly representable in binary64, so no rounding is lost.  The clock   *)
(* of ic_cdk::api::time() counts nanoseconds; the model counts it in       *)
(* ticks of twelve hours, so that one day is DayTicks ticks.  u32 values   *)
(* that may wrap are kept as two 16-bit limbs.                             *)
(***************************************************************************)
EXTENDS Integers, Sequences, FiniteSets, TLC

VARIABLES
    counter,      \* ID_COUNTER: the next nip to mint
    employees,    \* EMPLOYEE_STORAGE: nip -> Employee
    attendance,   \* ATTENDANCE_STORAGE: <<nip, day>> -> Attendance
    approvals,    \* APPROVAL_STORAGE: <<nip, day>> -> PayrollApproval
    now,          \* ic_cdk::api::time(), in ticks
    last,         \* the last update call that returned Ok: its name, its result and
                  \* what its insert replaced (other calls leave it as it is)
    steps,        \* history: the number of steps taken (see MaxSteps)
    minted,       \* history: the records returned by successful add_employee calls
    decided       \* history: per approval key, the flag of the last approve_payroll
                  \* since the last request_approval ("none" if there was none)

vars == <<counter, employees, attendance, approvals, now, last,
          steps, minted, decided>>

----------------------------------------------------------------------------
(* Bound of the model: the number of steps (successful update calls and    *)
(* clock ticks) a behaviour takes                                           *)

MaxSteps == 5

(* The clock when the canister is installed, in ticks *)
InstallTime == 1

(* One day, 24 * 60 * 60 * 1_000_000_000 ns, in clock ticks *)
DayTicks == 2

(* 1000.0 * 60.0 * 60.0 *)
MS_PER_HOUR == 1000 * 60 * 60

(* Inputs *)
Names == { <<>>, <<" ">>, <<" ", "A">> }
Ages == { 0, 30, 61 }
WageInts == { -10, 0, 10 }
EmployeeWallets == { "not a principal" }
Wallets == { "aaaaa-aa", "not a principal" }
CheckIns == { MS_PER_HOUR }
CheckOuts == { 0, MS_PER_HOUR, 2 * MS_PER_HOUR, 3 * MS_PER_HOUR }

----------------------------------------------------------------------------
(* f64 as exact fractions *)

RECURSIVE Gcd(_, _)
Gcd(a, b) == IF b = 0 THEN a ELSE Gcd(b, a % b)

Abs(x) == IF x < 0 THEN -x ELSE x

F64(n, d) ==
    LET g == Gcd(Abs(n), d)
    IN  IF n = 0 THEN [num |-> 0, den |-> 1]
        ELSE [num |-> n \div g, den |-> d \div g]

F64Mul(x, y) == F64(x.num * y.num, x.den * y.den)

(* Mutant: < 0.0 for <= 0.0 *)
F64LtZero(x) == x.num < 0

F64LeqZero(x) == x.num <= 0

(* u32 as [hi, lo] limbs of 16 bits *)
U32(n) == [hi |-> n \div 65536, lo |-> n % 65536]

U32WrappingSub(a, b) ==
    IF a >= b THEN U32(a - b)
    ELSE LET d == b - a
             l == (65536 - (d % 65536)) % 65536
             borrow == IF d % 65536 = 0 THEN 0 ELSE 1
         IN  [hi |-> 65536 - (d \div 65536) - borrow, lo |-> l]

----------------------------------------------------------------------------
(* Helpers of lib.rs *)

IsWhitespace(c) == c = " "

RECURSIVE TrimStart(_)
TrimStart(s) ==
    IF s # <<>> /\ IsWhitespace(Head(s)) THEN TrimStart(Tail(s)) ELSE s

RECURSIVE TrimEnd(_)
TrimEnd(s) ==
    IF s # <<>> /\ IsWhitespace(s[Len(s)]) THEN TrimEnd(SubSeq(s, 1, Len(s) - 1)) ELSE s

(* Mutant: the name is tested as it is given *)
Trim_Nothing(s) == s

Trim(s) == TrimEnd(TrimStart(s))

(* calculate_pension_age: 60 - age on u32.  For age > 60 the subtraction    *)
(* overflows: a build with overflow checks panics (the call traps), one     *)
(* without wraps.  overflow_checks, an argument of the call in the model,   *)
(* says which build runs.                                                   *)
PensionOverflows(age) == age > 60

calculate_pension_age(age) == U32WrappingSub(60, age)

(* Mutant: the hours between the two times, in either order *)
calculate_work_hours_Abs(check_in, check_out) ==
    F64(Abs(check_out - check_in), MS_PER_HOUR)

calculate_work_hours(check_in, check_out) ==
    IF check_out <= check_in THEN F64(0, 1)
    ELSE F64(check_out - check_in, MS_PER_HOUR)

(* Mutant: the wage of one hour, whatever the hours *)
calculate_daily_wage_OneHour(total_hours, wage_per_hour) == wage_per_hour

calculate_daily_wage(total_hours, wage_per_hour) == F64Mul(total_hours, wage_per_hour)

(* Principal::from_text succeeds on well-formed principal text only *)
PrincipalTexts == { "aaaaa-aa" }

validate_wallet(wallet_address) == wallet_address \in PrincipalTexts

(* time() / (24 * 60 * 60 * 1_000_000_000) *)
CurrentDate(t) == t \div DayTicks

(* The nips and dates calls are made with: every stored nip and one that is *)
(* not stored, every day up to tomorrow                                     *)
Nips == 0 .. counter
Dates == 0 .. (CurrentDate(now) + 1)

(* Mutant: insert keeps the value a key already holds *)
Insert_IfAbsent(map, key, value) ==
    [k \in (DOMAIN map) \cup {key} |-> IF k \in DOMAIN map THEN map[k] ELSE value]

(* StableBTreeMap::insert and ::get *)
Insert(map, key, value) ==
    [k \in (DOMAIN map) \cup {key} |-> IF k = key THEN value ELSE map[k]]

Has(map, key) == key \in DOMAIN map

(* Mutant: set returns the value it has just stored *)
CellSet_ReturnsNew(old, new) == [stored |-> new, returned |-> new]

(* Cell::set stores the new value and returns the previous one *)
CellSet(old, new) == [stored |-> new, returned |-> old]

(* StableBTreeMap::insert returns the value the key held before, if any *)
Previous(map, key) == IF Has(map, key) THEN <<map[key]>> ELSE << >>

Ok(v) == [tag |-> "Ok", val |-> <<v>>]
Err(e) == [tag |-> e, val |-> << >>]

----------------------------------------------------------------------------
(* The entry points, as functions of the current state and the arguments.   *)
(* Each gives the result returned (res), the four regions after the call    *)
(* (state) and what the call's insert replaced (prev).                      *)

Payloads ==
    [name : Names, age : Ages, wage_per_hour : {F64(w, 1) : w \in WageInts},
     wallet_address : EmployeeWallets]

State ==
    [counter |-> counter, employees |-> employees,
     attendance |-> attendance, approvals |-> approvals]

(* An Err return, and a trap, which rolls the message's writes back *)
Fail(e) == [res |-> Err(e), state |-> State, prev |-> << >>]

NewEmployee(nip, payload, pension_age, created_at) ==
    [nip |-> nip,
     name |-> payload.name,
     age |-> payload.age,
     pension_age |-> pension_age,
     wage_per_hour |-> payload.wage_per_hour,
     sk_file |-> "None",
     wallet_address |-> payload.wallet_address,
     created_at |-> created_at,
     updated_at |-> "None"]

(* Mutant: the id is minted before the payload is validated *)
add_employee_MintsFirst(payload, overflow_checks) ==
    LET cell == CellSet(counter, counter + 1)
        nip == cell.returned
    IN  IF Trim(payload.name) = << >> \/ payload.age = 0 \/ F64LeqZero(payload.wage_per_hour)
        THEN [res |-> Err("InvalidInput"),
              state |-> [State EXCEPT !.counter = cell.stored],
              prev |-> << >>]
        ELSE IF overflow_checks /\ PensionOverflows(payload.age)
             THEN Fail("Trap")
             ELSE LET pension_age == calculate_pension_age(payload.age)
                      employee == NewEmployee(nip, payload, pension_age, now)
                  IN  [res |-> Ok(employee),
                       state |-> [State EXCEPT
                                     !.counter = cell.stored,
                                     !.employees = Insert(employees, nip, employee)],
                       prev |-> Previous(employees, nip)]

(* Mutant: the overflow panic leaves the minted id consumed *)
add_employee_TrapKeepsCounter(payload, overflow_checks) ==
    IF Trim(payload.name) = << >> \/ payload.age = 0 \/ F64LeqZero(payload.wage_per_hour)
    THEN Fail("InvalidInput")
    ELSE LET cell == CellSet(counter, counter + 1)
             nip == cell.returned
         IN  IF overflow_checks /\ PensionOverflows(payload.age)
             THEN [res |-> Err("Trap"),
                   state |-> [State EXCEPT !.counter = cell.stored],
                   prev |-> << >>]
             ELSE LET pension_age == calculate_pension_age(payload.age)
                      employee == NewEmployee(nip, payload, pension_age, now)
                  IN  [res |-> Ok(employee),
                       state |-> [State EXCEPT
                                     !.counter = cell.stored,
                                     !.employees = Insert(employees, nip, employee)],
                       prev |-> Previous(employees, nip)]

add_employee(payload, overflow_checks) ==
    IF Trim(payload.name) = << >> \/ payload.age = 0 \/ F64LeqZero(payload.wage_per_hour)
    THEN Fail("InvalidInput")
    ELSE LET cell == CellSet(counter, counter + 1)
             nip == cell.returned
         IN  IF overflow_checks /\ PensionOverflows(payload.age)
             THEN Fail("Trap")
             ELSE LET pension_age == calculate_pension_age(payload.age)
                      employee == NewEmployee(nip, payload, pension_age, now)
                  IN  [res |-> Ok(employee),
                       state |-> [State EXCEPT
                                     !.counter = cell.stored,
                                     !.employees = Insert(employees, nip, employee)],
                       prev |-> Previous(employees, nip)]

get_employee(nip) ==
    IF Has(employees, nip) THEN Ok(employees[nip]) ELSE Err("NotFound")

NewAttendance(check_in, check_out, total_hours, daily_wage) ==
    [check_in |-> check_in,
     check_out |-> check_out,
     total_hours |-> total_hours,
     daily_wage |-> daily_wage]

(* Mutant: recording attendance stamps updated_at of the employee *)
record_attendance_TouchesEmployee(nip, check_in, check_out) ==
    IF ~Has(employees, nip)
    THEN Fail("NotFound")
    ELSE LET employee == employees[nip]
             total_hours == calculate_work_hours(check_in, check_out)
         IN  IF F64LeqZero(total_hours)
             THEN Fail("InvalidInput")
             ELSE LET daily_wage == calculate_daily_wage(total_hours, employee.wage_per_hour)
                      record == NewAttendance(check_in, check_out, total_hours, daily_wage)
                      current_date == CurrentDate(now)
                  IN  [res |-> Ok(record),
                       state |-> [State EXCEPT
                                     !.employees =
                                         Insert(employees, nip,
                                                [employee EXCEPT !.updated_at = "Some"]),
                                     !.attendance =
                                         Insert(attendance, <<nip, current_date>>, record)],
                       prev |-> Previous(attendance, <<nip, current_date>>)]

(* Mutant: the record is stored under the day of check_in *)
record_attendance_KeyedByCheckIn(nip, check_in, check_out) ==
    IF ~Has(employees, nip)
    THEN Fail("NotFound")
    ELSE LET employee == employees[nip]
             total_hours == calculate_work_hours(check_in, check_out)
         IN  IF F64LeqZero(total_hours)
             THEN Fail("InvalidInput")
             ELSE LET daily_wage == calculate_daily_wage(total_hours, employee.wage_per_hour)
                      record == NewAttendance(check_in, check_out, total_hours, daily_wage)
                      current_date == check_in \div (24 * MS_PER_HOUR)
                  IN  [res |-> Ok(record),
                       state |-> [State EXCEPT
                                     !.attendance =
                                         Insert(attendance, <<nip, current_date>>, record)],
                       prev |-> Previous(attendance, <<nip, current_date>>)]

record_attendance(nip, check_in, check_out) ==
    IF ~Has(employees, nip)
    THEN Fail("NotFound")
    ELSE LET employee == employees[nip]
             total_hours == calculate_work_hours(check_in, check_out)
         IN  IF F64LeqZero(total_hours)
             THEN Fail("InvalidInput")
             ELSE LET daily_wage == calculate_daily_wage(total_hours, employee.wage_per_hour)
                      record == NewAttendance(check_in, check_out, total_hours, daily_wage)
                      current_date == CurrentDate(now)
                  IN  [res |-> Ok(record),
                       state |-> [State EXCEPT
                                     !.attendance =
                                         Insert(attendance, <<nip, current_date>>, record)],
                       prev |-> Previous(attendance, <<nip, current_date>>)]

(* Mutant: an approval is born Approved *)
NewApproval_Approved(nip, current_date, daily_wage, manager_wallet) ==
    [employee_nip |-> nip,
     attendance_date |-> current_date,
     wage_amount |-> daily_wage,
     status |-> "Approved",
     manager_wallet |-> manager_wallet]

NewApproval(nip, current_date, daily_wage, manager_wallet) ==
    [employee_nip |-> nip,
     attendance_date |-> current_date,
     wage_amount |-> daily_wage,
     status |-> "Pending",
     manager_wallet |-> manager_wallet]

(* Mutant: a second request for the day returns the approval already stored *)
request_approval_KeepsExisting(nip, manager_wallet) ==
    IF ~validate_wallet(manager_wallet)
    THEN Fail("InvalidWallet")
    ELSE LET current_date == CurrentDate(now)
         IN  IF ~Has(attendance, <<nip, current_date>>)
             THEN Fail("NotFound")
             ELSE LET record == attendance[<<nip, current_date>>]
                      approval ==
                          IF Has(approvals, <<nip, current_date>>)
                          THEN approvals[<<nip, current_date>>]
                          ELSE NewApproval(nip, current_date, record.daily_wage,
                                           manager_wallet)
                  IN  [res |-> Ok(approval),
                       state |-> [State EXCEPT
                                     !.approvals =
                                         Insert(approvals, <<nip, current_date>>, approval)],
                       prev |-> Previous(approvals, <<nip, current_date>>)]

(* Mutant: wage_amount is copied from total_hours *)
request_approval_WrongField(nip, manager_wallet) ==
    IF ~validate_wallet(manager_wallet)
    THEN Fail("InvalidWallet")
    ELSE LET current_date == CurrentDate(now)
         IN  IF ~Has(attendance, <<nip, current_date>>)
             THEN Fail("NotFound")
             ELSE LET record == attendance[<<nip, current_date>>]
                      approval == NewApproval(nip, current_date, record.total_hours,
                                              manager_wallet)
                  IN  [res |-> Ok(approval),
                       state |-> [State EXCEPT
                                     !.approvals =
                                         Insert(approvals, <<nip, current_date>>, approval)],
                       prev |-> Previous(approvals, <<nip, current_date>>)]

(* Mutant: with no attendance stored for the day the request is for a wage  *)
(* of 0                                                                     *)
request_approval_NoLookup(nip, manager_wallet) ==
    IF ~validate_wallet(manager_wallet)
    THEN Fail("InvalidWallet")
    ELSE LET current_date == CurrentDate(now)
             daily_wage == IF Has(attendance, <<nip, current_date>>)
                           THEN attendance[<<nip, current_date>>].daily_wage
                           ELSE F64(0, 1)
             approval == NewApproval(nip, current_date, daily_wage, manager_wallet)
         IN  [res |-> Ok(approval),
              state |-> [State EXCEPT
                            !.approvals =
                                Insert(approvals, <<nip, current_date>>, approval)],
              prev |-> Previous(approvals, <<nip, current_date>>)]

(* Mutant: the attendance lookup comes before the wallet check *)
request_approval_LookupFirst(nip, manager_wallet) ==
    LET current_date == CurrentDate(now)
    IN  IF ~Has(attendance, <<nip, current_date>>)
        THEN Fail("NotFound")
        ELSE IF ~validate_wallet(manager_wallet)
             THEN Fail("InvalidWallet")
             ELSE LET record == attendance[<<nip, current_date>>]
                      approval == NewApproval(nip, current_date, record.daily_wage,
                                              manager_wallet)
                  IN  [res |-> Ok(approval),
                       state |-> [State EXCEPT
                                     !.approvals =
                                         Insert(approvals, <<nip, current_date>>, approval)],
                       prev |-> Previous(approvals, <<nip, current_date>>)]

(* Mutant: the request is for the latest day the employee has attendance of *)
request_approval_LatestAttendance(nip, manager_wallet) ==
    IF ~validate_wallet(manager_wallet)
    THEN Fail("InvalidWallet")
    ELSE LET days == { d \in 0 .. CurrentDate(now) : Has(attendance, <<nip, d>>) }
         IN  IF days = {}
             THEN Fail("NotFound")
             ELSE LET current_date == CHOOSE d \in days : \A e \in days : e <= d
                      record == attendance[<<nip, current_date>>]
                      approval == NewApproval(nip, current_date, record.daily_wage,
                                              manager_wallet)
                  IN  [res |-> Ok(approval),
                       state |-> [State EXCEPT
                                     !.approvals =
                                         Insert(approvals, <<nip, current_date>>, approval)],
                       prev |-> Previous(approvals, <<nip, current_date>>)]

request_approval(nip, manager_wallet) ==
    IF ~validate_wallet(manager_wallet)
    THEN Fail("InvalidWallet")
    ELSE LET current_date == CurrentDate(now)
         IN  IF ~Has(attendance, <<nip, current_date>>)
             THEN Fail("NotFound")
             ELSE LET record == attendance[<<nip, current_date>>]
                      approval == NewApproval(nip, current_date, record.daily_wage,
                                              manager_wallet)
                  IN  [res |-> Ok(approval),
                       state |-> [State EXCEPT
                                     !.approvals =
                                         Insert(approvals, <<nip, current_date>>, approval)],
                       prev |-> Previous(approvals, <<nip, current_date>>)]

(* Mutant: a decision is final, only a Pending approval is decided *)
SetStatus_OnlyPending(approval, approved) ==
    IF approval.status = "Pending"
    THEN [approval EXCEPT !.status = IF approved THEN "Approved" ELSE "Rejected"]
    ELSE approval

SetStatus(approval, approved) ==
    [approval EXCEPT !.status = IF approved THEN "Approved" ELSE "Rejected"]

(* Mutant: a missing approval is decided as a default record (get-or-default) *)
approve_payroll_Upsert(nip, date, approved) ==
    LET found == IF Has(approvals, <<nip, date>>)
                 THEN approvals[<<nip, date>>]
                 ELSE NewApproval(0, 0, F64(0, 1), "")
        approval == SetStatus(found, approved)
    IN  [res |-> Ok(approval),
         state |-> [State EXCEPT
                       !.approvals = Insert(approvals, <<nip, date>>, approval)],
         prev |-> Previous(approvals, <<nip, date>>)]

(* Mutant: the decision refreshes wage_amount from the attendance of the day *)
approve_payroll_RefreshesWage(nip, date, approved) ==
    IF ~Has(approvals, <<nip, date>>)
    THEN Fail("NotFound")
    ELSE LET decided_ == SetStatus(approvals[<<nip, date>>], approved)
             approval == IF Has(attendance, <<nip, date>>)
                         THEN [decided_ EXCEPT
                                  !.wage_amount = attendance[<<nip, date>>].daily_wage]
                         ELSE decided_
         IN  [res |-> Ok(approval),
              state |-> [State EXCEPT
                            !.approvals = Insert(approvals, <<nip, date>>, approval)],
              prev |-> Previous(approvals, <<nip, date>>)]

approve_payroll(nip, date, approved) ==
    IF ~Has(approvals, <<nip, date>>)
    THEN Fail("NotFound")
    ELSE LET approval == SetStatus(approvals[<<nip, date>>], approved)
         IN  [res |-> Ok(approval),
              state |-> [State EXCEPT
                            !.approvals = Insert(approvals, <<nip, date>>, approval)],
              prev |-> Previous(approvals, <<nip, date>>)]

----------------------------------------------------------------------------
Init ==
    /\ counter = 0
    /\ employees = << >>
    /\ attendance = << >>
    /\ approvals = << >>
    /\ now = InstallTime
    /\ last = [op |-> "init", res |-> Err("None"), prev |-> << >>]
    /\ steps = 0
    /\ minted = << >>
    /\ decided = << >>

(* A call that succeeds is a step, and so is a tick of the clock *)
Counted(res) ==
    /\ res.tag = "Ok" => steps < MaxSteps
    /\ steps' = IF res.tag = "Ok" THEN steps + 1 ELSE steps

(* The call commits the regions it returns *)
Commit(r) ==
    /\ counter' = r.state.counter
    /\ employees' = r.state.employees
    /\ attendance' = r.state.attendance
    /\ approvals' = r.state.approvals

(* add_employee is called with the payloads that have at most one bad field *)
BadFields(payload) ==
      (IF Trim(payload.name) = << >> THEN 1 ELSE 0)
    + (IF payload.age = 0 THEN 1 ELSE 0)
    + (IF F64LeqZero(payload.wage_per_hour) THEN 1 ELSE 0)

PayloadArgs == { payload \in Payloads : BadFields(payload) <= 1 }

(* The clock is monotonically non-decreasing *)
Tick ==
    /\ steps < MaxSteps
    /\ steps' = steps + 1
    /\ now' = now + 1
    /\ last' = [op |-> "tick", res |-> Err("None"), prev |-> << >>]
    /\ UNCHANGED <<counter, employees, attendance, approvals, minted, decided>>

AddEmployee ==
    \E payload \in PayloadArgs :
        \E overflow_checks \in IF PensionOverflows(payload.age) THEN BOOLEAN ELSE {FALSE} :
            LET r == add_employee(payload, overflow_checks)
            IN  /\ Counted(r.res)
                /\ Commit(r)
                /\ last' = IF r.res.tag = "Ok"
                           THEN [op |-> "add_employee", res |-> r.res, prev |-> r.prev]
                           ELSE last
                /\ minted' = IF r.res.tag = "Ok"
                             THEN Append(minted, r.res.val[1])
                             ELSE minted
                /\ UNCHANGED <<now, decided>>

(* A query: it returns its result and changes nothing *)
GetEmployee ==
    \E nip \in Nips :
        /\ get_employee(nip).tag \in {"Ok", "NotFound"}
        /\ UNCHANGED vars

RecordAttendance ==
    \E nip \in Nips, check_in \in CheckIns, check_out \in CheckOuts :
        LET r == record_attendance(nip, check_in, check_out)
        IN  /\ Counted(r.res)
            /\ Commit(r)
            /\ last' = IF r.res.tag = "Ok"
                       THEN [op |-> "record_attendance", res |-> r.res, prev |-> r.prev]
                       ELSE last
            /\ UNCHANGED <<now, minted, decided>>

RequestApproval ==
    \E nip \in Nips, manager_wallet \in Wallets :
        LET r == request_approval(nip, manager_wallet)
        IN  /\ Counted(r.res)
            /\ Commit(r)
            /\ last' = IF r.res.tag = "Ok"
                       THEN [op |-> "request_approval", res |-> r.res, prev |-> r.prev]
                       ELSE last
            /\ decided' = IF r.res.tag = "Ok"
                          THEN Insert(decided, <<nip, CurrentDate(now)>>, "none")
                          ELSE decided
            /\ UNCHANGED <<now, minted>>

ApprovePayroll ==
    \E nip \in Nips, date \in Dates, approved \in BOOLEAN :
        LET r == approve_payroll(nip, date, approved)
        IN  /\ Counted(r.res)
            /\ Commit(r)
            /\ last' = IF r.res.tag = "Ok"
                       THEN [op |-> "approve_payroll", res |-> r.res, prev |-> r.prev]
                       ELSE last
            /\ decided' = IF r.res.tag = "Ok"
                          THEN Insert(decided, <<nip, date>>,
                                      IF approved THEN "approve" ELSE "reject")
                          ELSE decided
            /\ UNCHANGED <<now, minted>>

Next ==
    \/ Tick
    \/ AddEmployee
    \/ GetEmployee
    \/ RecordAttendance
    \/ RequestApproval
    \/ ApprovePayroll

Spec == Init /\ [][Next]_vars

----------------------------------------------------------------------------
(* Properties.  A property of a call is stated of the call applied, with    *)
(* every argument of the input sets, in every reachable state.              *)

Today == CurrentDate(now)
Flags == BOOLEAN
LastOk(op) == last.op = op /\ last.res.tag = "Ok"

(* C1: the first successful add_employee returns nip 0, and every later     *)
(* successful add_employee returns a nip strictly greater than the nip of   *)
(* every earlier one, whatever is interleaved.                              *)
C1_NipsStrictlyIncrease ==
    /\ minted # << >> => minted[1].nip = 0
    /\ \A i, j \in 1 .. Len(minted) : i < j => minted[i].nip < minted[j].nip

(* Two employees added, with a record_attendance in between or before *)
C1_Witness ==
    /\ LastOk("add_employee")
    /\ Len(minted) >= 2
    /\ attendance # << >>

(* C2 as claimed: the status under an existing approval key is changed by   *)
(* no add_employee, record_attendance or request_approval call (get_employee *)
(* is a query and writes nothing); Pending is set only at creation.         *)
C2_StatusChangesOnlyInApprove ==
    \A k \in DOMAIN approvals :
        /\ \A payload \in Payloads, oc \in Flags :
               LET after == add_employee(payload, oc).state.approvals
               IN  Has(after, k) /\ after[k].status = approvals[k].status
        /\ \A nip \in Nips, ci \in CheckIns, co \in CheckOuts :
               LET after == record_attendance(nip, ci, co).state.approvals
               IN  Has(after, k) /\ after[k].status = approvals[k].status
        /\ \A nip \in Nips, w \in Wallets :
               LET after == request_approval(nip, w).state.approvals
               IN  Has(after, k) /\ after[k].status = approvals[k].status

(* C2 amended: add_employee and record_attendance change no stored status;  *)
(* request_approval changes the status of one stored approval at most, the  *)
(* one of its employee for the current day, and only by setting it to       *)
(* Pending; approve_payroll changes the status of the approval it names     *)
(* only, and never to Pending.                                              *)
C2_StatusChangesOnlyInApproveOrReRequest ==
    \A k \in DOMAIN approvals :
        /\ \A payload \in Payloads, oc \in Flags :
               LET after == add_employee(payload, oc).state.approvals
               IN  Has(after, k) /\ after[k].status = approvals[k].status
        /\ \A nip \in Nips, ci \in CheckIns, co \in CheckOuts :
               LET after == record_attendance(nip, ci, co).state.approvals
               IN  Has(after, k) /\ after[k].status = approvals[k].status
        /\ \A nip \in Nips, w \in Wallets :
               LET after == request_approval(nip, w).state.approvals
               IN  /\ Has(after, k)
                   /\ \/ after[k].status = approvals[k].status
                      \/ k = <<nip, Today>> /\ after[k].status = "Pending"
        /\ \A nip \in Nips, date \in Dates, approved \in Flags :
               LET after == approve_payroll(nip, date, approved).state.approvals
               IN  /\ Has(after, k)
                   /\ \/ after[k].status = approvals[k].status
                      \/ k = <<nip, date>> /\ after[k].status \in {"Approved", "Rejected"}

(* A record_attendance has succeeded while an Approved approval is stored,  *)
(* and the approval is still Approved                                       *)
C2_Witness ==
    /\ LastOk("record_attendance")
    /\ \E k \in DOMAIN approvals : approvals[k].status = "Approved"

(* C3: a successful request_approval for a key that already holds an        *)
(* approval replaces that record, and the stored status becomes Pending     *)
(* whatever it was.                                                         *)
C3_ReRequestResetsToPending ==
    /\ \A nip \in Nips, w \in Wallets :
           LET k == <<nip, Today>>
               r == request_approval(nip, w)
           IN  (Has(approvals, k) /\ r.res.tag = "Ok") =>
                   /\ r.prev = <<approvals[k]>>
                   /\ DOMAIN r.state.approvals = DOMAIN approvals
                   /\ r.state.approvals[k] = r.res.val[1]
                   /\ r.state.approvals[k].status = "Pending"
                   /\ r.state.approvals[k].manager_wallet = w
    /\ LastOk("request_approval") =>
           \E k \in DOMAIN approvals :
               approvals[k] = last.res.val[1] /\ approvals[k].status = "Pending"

(* A request has replaced an Approved approval *)
C3_Witness ==
    /\ LastOk("request_approval")
    /\ last.prev # << >>
    /\ last.prev[1].status = "Approved"

(* C4: approve_payroll on a stored approval sets the status the flag        *)
(* selects, from any prior status; after a run of approve_payroll calls     *)
(* with no request_approval in between the status is the one the last       *)
(* call's flag selects.                                                     *)
C4_StatusFollowsLastFlag ==
    /\ \A nip \in Nips, date \in Dates, approved \in Flags :
           LET k == <<nip, date>>
               r == approve_payroll(nip, date, approved)
           IN  Has(approvals, k) =>
                   /\ r.res.tag = "Ok"
                   /\ r.state.approvals[k] = r.res.val[1]
                   /\ r.state.approvals[k].status =
                          IF approved THEN "Approved" ELSE "Rejected"
    /\ DOMAIN decided = DOMAIN approvals
    /\ \A k \in DOMAIN approvals :
           approvals[k].status =
               CASE decided[k] = "approve" -> "Approved"
                 [] decided[k] = "reject" -> "Rejected"
                 [] OTHER -> "Pending"

(* A Rejected approval has been approved *)
C4_Witness ==
    /\ LastOk("approve_payroll")
    /\ last.prev[1].status = "Rejected"
    /\ last.res.val[1].status = "Approved"

(* C5: approve_payroll returns NotFound when no approval is stored under    *)
(* (id, date), for either flag, and creates no approval record.             *)
C5_ApproveUnknownIsNotFound ==
    \A nip \in Nips, date \in Dates, approved \in Flags :
        LET r == approve_payroll(nip, date, approved)
        IN  ~Has(approvals, <<nip, date>>) =>
                /\ r.res = Err("NotFound")
                /\ r.state = State

(* Attendance is stored for a day, no approval is, and approve_payroll for  *)
(* that day returns NotFound                                                *)
C5_Witness ==
    \E k \in DOMAIN attendance :
        /\ ~Has(approvals, k)
        /\ approve_payroll(k[1], k[2], TRUE).res = Err("NotFound")
        /\ approve_payroll(k[1], k[2], FALSE).state.approvals = approvals

(* C6 as claimed: in every reachable state and for every nip,             *)
(* record_attendance with check_out <= check_in yields InvalidInput.        *)
C6_BadRangeIsInvalidInput ==
    \A nip \in Nips, ci \in CheckIns, co \in CheckOuts :
        co <= ci => record_attendance(nip, ci, co).res = Err("InvalidInput")

(* C6 amended: in every reachable state and for every nip of a stored       *)
(* employee, record_attendance with check_out <= check_in yields            *)
(* InvalidInput and stores nothing.                                         *)
C6_BadRangeOfKnownEmployeeIsInvalidInput ==
    \A nip \in Nips, ci \in CheckIns, co \in CheckOuts :
        LET r == record_attendance(nip, ci, co)
        IN  (Has(employees, nip) /\ co <= ci) =>
                /\ r.res = Err("InvalidInput")
                /\ r.state = State

(* An employee is stored and record_attendance for it with check_out equal  *)
(* to check_in, and with check_out before check_in, returns InvalidInput    *)
C6_Witness ==
    \E nip \in DOMAIN employees :
        /\ \E ci \in CheckIns, co \in CheckOuts :
               co = ci /\ record_attendance(nip, ci, co).res = Err("InvalidInput")
        /\ \E ci \in CheckIns, co \in CheckOuts :
               co < ci /\ record_attendance(nip, ci, co).res = Err("InvalidInput")

(* C7: for a stored employee and check_out > check_in, record_attendance    *)
(* succeeds; the record returned is the record stored; its total_hours is   *)
(* (check_out - check_in) / 3,600,000, which is > 0, and its daily_wage is  *)
(* total_hours x wage_per_hour; a difference of 3,600,000 at wage 10 gives  *)
(* 1 hour and a daily wage of 10.                                           *)
C7_HoursAndWage ==
    \A nip \in Nips, ci \in CheckIns, co \in CheckOuts :
        LET r == record_attendance(nip, ci, co)
            rec == r.res.val[1]
            wage == employees[nip].wage_per_hour
        IN  (Has(employees, nip) /\ co > ci) =>
                /\ r.res.tag = "Ok"
                /\ r.state.attendance[<<nip, Today>>] = rec
                /\ rec.total_hours.den > 0
                /\ rec.total_hours.num * (1000 * 60 * 60) = (co - ci) * rec.total_hours.den
                /\ rec.total_hours.num > 0
                /\ rec.daily_wage.den > 0
                /\ rec.daily_wage.num * (rec.total_hours.den * wage.den) =
                       (rec.total_hours.num * wage.num) * rec.daily_wage.den
                /\ (co - ci = 3600000 /\ wage = [num |-> 10, den |-> 1]) =>
                       /\ rec.total_hours = [num |-> 1, den |-> 1]
                       /\ rec.daily_wage = [num |-> 10, den |-> 1]

(* Two hours at wage 10 have been recorded: 20 *)
C7_Witness ==
    /\ LastOk("record_attendance")
    /\ last.res.val[1].check_out - last.res.val[1].check_in = 7200000
    /\ last.res.val[1].total_hours = [num |-> 2, den |-> 1]
    /\ last.res.val[1].daily_wage = [num |-> 20, den |-> 1]

(* C8: when record_attendance succeeds again for an employee within the     *)
(* day, the store keeps one record for the (employee, day) key and it is    *)
(* the second call's: its check_in, check_out, total_hours and daily_wage.  *)
C8_SecondRecordOverwrites ==
    /\ \A nip \in Nips, ci \in CheckIns, co \in CheckOuts :
           LET k == <<nip, Today>>
               r == record_attendance(nip, ci, co)
           IN  (Has(attendance, k) /\ r.res.tag = "Ok") =>
                   /\ r.prev = <<attendance[k]>>
                   /\ DOMAIN r.state.attendance = DOMAIN attendance
                   /\ \A j \in DOMAIN attendance :
                          j # k => r.state.attendance[j] = attendance[j]
                   /\ r.state.attendance[k] = r.res.val[1]
                   /\ r.state.attendance[k] =
                          [check_in |-> ci,
                           check_out |-> co,
                           total_hours |-> calculate_work_hours(ci, co),
                           daily_wage |->
                               calculate_daily_wage(calculate_work_hours(ci, co),
                                                    employees[nip].wage_per_hour)]
    /\ LastOk("record_attendance") =>
           \E nip \in DOMAIN employees :
               /\ Has(attendance, <<nip, Today>>)
               /\ attendance[<<nip, Today>>] = last.res.val[1]

(* A second record_attendance of the day has replaced a record with other   *)
(* values                                                                   *)
C8_Witness ==
    /\ LastOk("record_attendance")
    /\ last.prev # << >>
    /\ last.prev[1].check_out # last.res.val[1].check_out
    /\ last.prev[1].daily_wage # last.res.val[1].daily_wage

(* C9: request_approval with a well-formed manager_wallet returns NotFound  *)
(* and stores nothing when no attendance is stored under (id, today), also  *)
(* when the employee has attendance under earlier days only; otherwise it   *)
(* returns and stores a Pending approval whose wage_amount is the           *)
(* daily_wage of the attendance stored under (id, today).                   *)
C9_RequestNeedsTodaysAttendance ==
    \A nip \in Nips, w \in PrincipalTexts :
        LET k == <<nip, Today>>
            r == request_approval(nip, w)
        IN  IF ~Has(attendance, k)
            THEN /\ r.res = Err("NotFound")
                 /\ r.state = State
            ELSE /\ r.res.tag = "Ok"
                 /\ r.res.val[1].status = "Pending"
                 /\ r.res.val[1].wage_amount = attendance[k].daily_wage
                 /\ r.state.approvals[k] = r.res.val[1]

(* The employee has attendance under an earlier day and none today, and     *)
(* request_approval for it returns NotFound and stores nothing              *)
C9_Witness ==
    \E nip \in DOMAIN employees :
        /\ \E d \in Dates : d < Today /\ Has(attendance, <<nip, d>>)
        /\ ~Has(attendance, <<nip, Today>>)
        /\ \A w \in PrincipalTexts :
               /\ request_approval(nip, w).res = Err("NotFound")
               /\ request_approval(nip, w).state.approvals = approvals

(* C10: wage_amount of a stored approval is fixed at request time:          *)
(* record_attendance and approve_payroll leave it unchanged, so an Approved *)
(* approval can carry a wage_amount other than the daily_wage stored for    *)
(* its day.                                                                 *)
C10_WageAmountIsFixed ==
    \A k \in DOMAIN approvals :
        /\ \A nip \in Nips, ci \in CheckIns, co \in CheckOuts :
               LET after == record_attendance(nip, ci, co).state.approvals
               IN  Has(after, k) /\ after[k].wage_amount = approvals[k].wage_amount
        /\ \A nip \in Nips, date \in Dates, approved \in Flags :
               LET after == approve_payroll(nip, date, approved).state.approvals
               IN  Has(after, k) /\ after[k].wage_amount = approvals[k].wage_amount

(* An approval has been Approved at a wage_amount that is no longer the     *)
(* daily_wage of its day                                                    *)
C10_Witness ==
    /\ LastOk("approve_payroll")
    /\ \E k \in DOMAIN approvals :
           /\ approvals[k] = last.res.val[1]
           /\ approvals[k].status = "Approved"
           /\ approvals[k].wage_amount # attendance[k].daily_wage

(* after holds every employee the store holds, as it is *)
EmployeesKept(after) ==
    \A n \in DOMAIN employees : Has(after, n) /\ after[n] = employees[n]

(* C11: once add_employee has succeeded with nip n, get_employee(n) returns *)
(* the record add_employee returned, after any sequence of other calls: no  *)
(* call deletes or modifies a stored employee (get_employee is a query and  *)
(* writes nothing).                                                         *)
C11_GetReturnsWhatAddReturned ==
    /\ \A i \in 1 .. Len(minted) : get_employee(minted[i].nip) = Ok(minted[i])
    /\ \A payload \in Payloads, oc \in Flags :
           EmployeesKept(add_employee(payload, oc).state.employees)
    /\ \A nip \in Nips, ci \in CheckIns, co \in CheckOuts :
           EmployeesKept(record_attendance(nip, ci, co).state.employees)
    /\ \A nip \in Nips, w \in Wallets :
           EmployeesKept(request_approval(nip, w).state.employees)
    /\ \A nip \in Nips, date \in Dates, approved \in Flags :
           EmployeesKept(approve_payroll(nip, date, approved).state.employees)

(* An employee was added, then attendance recorded, approval requested and  *)
(* decided, and get_employee still returns the record add_employee returned *)
C11_Witness ==
    /\ LastOk("approve_payroll")
    /\ minted # << >>
    /\ Has(attendance, <<minted[1].nip, 0>>)
    /\ get_employee(minted[1].nip) = Ok(minted[1])

(* C12: every employee record add_employee stores has                       *)
(* pension_age = 60 - age as an equation of integers, for every age         *)
(* add_employee accepts (every age >= 1).                                   *)
C12_PensionAgeIs60MinusAge ==
    \A n \in DOMAIN employees :
        /\ employees[n].age >= 1
        /\ employees[n].pension_age.hi = 0
        /\ employees[n].pension_age.lo = 60 - employees[n].age

(* C13: add_employee returns InvalidInput whenever the name is empty or     *)
(* only whitespace, or age is 0, or wage_per_hour is <= 0, and then it      *)
(* mints no id and stores no employee.                                      *)
C13_BadPayloadIsInvalidInput ==
    \A payload \in Payloads, oc \in Flags :
        LET r == add_employee(payload, oc)
            blank == \A i \in 1 .. Len(payload.name) : payload.name[i] = " "
        IN  (blank \/ payload.age = 0 \/ payload.wage_per_hour.num <= 0) =>
                /\ r.res = Err("InvalidInput")
                /\ r.state.counter = counter
                /\ r.state.employees = employees
                /\ r.state = State

(* With an employee stored, add_employee of a payload whose only bad field  *)
(* is a whitespace name, of one whose only bad field is age 0, and of one   *)
(* whose only bad field is a wage of 0, return InvalidInput, and the        *)
(* counter and the store stay                                               *)
C13_Witness ==
    /\ counter >= 1
    /\ \A bad \in {[name |-> <<" ">>, age |-> 30, wage |-> 10],
                   [name |-> <<" ", "A">>, age |-> 0, wage |-> 10],
                   [name |-> <<" ", "A">>, age |-> 30, wage |-> 0],
                   [name |-> << >>, age |-> 61, wage |-> -10]} :
           \E payload \in Payloads :
               /\ payload.name = bad.name
               /\ payload.age = bad.age
               /\ payload.wage_per_hour = F64(bad.wage, 1)
               /\ add_employee(payload, FALSE).res = Err("InvalidInput")
               /\ add_employee(payload, FALSE).state.counter = counter
               /\ DOMAIN add_employee(payload, FALSE).state.employees = DOMAIN employees

(* C14: in every reachable state every stored attendance record has         *)
(* check_out strictly greater than check_in and total_hours > 0.            *)
C14_StoredAttendanceIsPositive ==
    \A k \in DOMAIN attendance :
        /\ attendance[k].check_out > attendance[k].check_in
        /\ attendance[k].total_hours.den > 0
        /\ attendance[k].total_hours.num > 0

(* Attendance is stored under two days, the later record written over an    *)
(* earlier one of its day                                                   *)
C14_Witness ==
    /\ LastOk("record_attendance")
    /\ last.prev # << >>
    /\ \E j, k \in DOMAIN attendance : j[2] < k[2] /\ attendance[k] = last.res.val[1]

(* C15: in every reachable state every key (id, day) of the approval store  *)
(* is a key of the attendance store, and every id of an attendance key is   *)
(* a key of the employee store; request_approval, which does not read the   *)
(* employee store, creates no approval for an unknown employee.             *)
C15_ApprovalsReferToAttendanceOfEmployees ==
    /\ DOMAIN approvals \subseteq DOMAIN attendance
    /\ \A k \in DOMAIN attendance : Has(employees, k[1])
    /\ \A nip \in Nips, w \in Wallets :
           LET r == request_approval(nip, w)
           IN  ~Has(employees, nip) =>
                   /\ r.res.tag \in {"NotFound", "InvalidWallet"}
                   /\ r.state.approvals = approvals

(* An approval has been requested, attendance is stored under more keys     *)
(* than approvals are, and a request with a well-formed wallet for the nip  *)
(* not minted yet returns NotFound                                          *)
C15_Witness ==
    /\ LastOk("request_approval")
    /\ approvals # << >>
    /\ DOMAIN attendance # DOMAIN approvals
    /\ ~Has(employees, counter)
    /\ \A w \in PrincipalTexts : request_approval(counter, w).res = Err("NotFound")

(* The day a time in milliseconds lies in; times of day 0, day 1 and day 2  *)
DayOfMs(t) == t \div (24 * MS_PER_HOUR)
TimesMs ==
    { 0, MS_PER_HOUR, 25 * MS_PER_HOUR, 26 * MS_PER_HOUR, 49 * MS_PER_HOUR, 50 * MS_PER_HOUR }

(* C16: a successful record_attendance writes one attendance key,           *)
(* (nip, now div one day) with now the clock at the call, whatever check_in *)
(* and check_out are (a call whose check_in lies in an earlier day is       *)
(* stored under today's key); every other attendance key, the employee      *)
(* store, the approval store and the id counter are left as they were.      *)
C16_RecordWritesTodaysKeyOnly ==
    \A nip \in Nips, ci \in CheckIns \cup TimesMs, co \in CheckOuts \cup TimesMs :
        LET r == record_attendance(nip, ci, co)
            k == <<nip, now \div DayTicks>>
        IN  r.res.tag = "Ok" =>
                /\ DOMAIN r.state.attendance = (DOMAIN attendance) \cup {k}
                /\ \A j \in DOMAIN attendance :
                       j # k => r.state.attendance[j] = attendance[j]
                /\ r.state.attendance[k] = r.res.val[1]
                /\ r.state.attendance[k].check_in = ci
                /\ r.state.attendance[k].check_out = co
                /\ r.state.employees = employees
                /\ r.state.approvals = approvals
                /\ r.state.counter = counter

(* On day 1 or later a record whose check_in lies in day 0 has been stored  *)
(* under today's key, next to a record of an earlier day and an approval;   *)
(* a call whose check_in lies in a later day succeeds as well               *)
C16_Witness ==
    /\ LastOk("record_attendance")
    /\ DayOfMs(last.res.val[1].check_in) < Today
    /\ approvals # << >>
    /\ \E k \in DOMAIN attendance :
           /\ k[2] = Today
           /\ attendance[k] = last.res.val[1]
           /\ Has(attendance, <<k[1], 0>>)
           /\ \E ci \in TimesMs :
                  /\ DayOfMs(ci) > Today
                  /\ record_attendance(k[1], ci, 50 * MS_PER_HOUR).res.tag = "Ok"

(* C17: request_approval with a malformed manager_wallet returns            *)
(* InvalidWallet in every state, whether or not the employee exists and     *)
(* whether or not attendance is recorded for the current day;               *)
(* record_attendance for an unknown employee returns NotFound whatever the  *)
(* time range.                                                              *)
C17_WalletAndEmployeeAreCheckedFirst ==
    /\ \A nip \in Nips, w \in Wallets \ PrincipalTexts :
           request_approval(nip, w).res = Err("InvalidWallet")
    /\ \A nip \in Nips, ci \in CheckIns, co \in CheckOuts :
           ~Has(employees, nip) => record_attendance(nip, ci, co).res = Err("NotFound")

(* A malformed wallet is refused for an employee with attendance today, for *)
(* an employee without, and for a nip that is not stored; for that nip a    *)
(* bad and a good time range are both NotFound                              *)
C17_Witness ==
    /\ \E n \in DOMAIN employees :
           /\ Has(attendance, <<n, Today>>)
           /\ request_approval(n, "not a principal").res = Err("InvalidWallet")
    /\ \E n \in DOMAIN employees :
           /\ ~Has(attendance, <<n, Today>>)
           /\ request_approval(n, "not a principal").res = Err("InvalidWallet")
    /\ ~Has(employees, counter)
    /\ request_approval(counter, "not a principal").res = Err("InvalidWallet")
    /\ record_attendance(counter, MS_PER_HOUR, 0).res = Err("NotFound")
    /\ record_attendance(counter, MS_PER_HOUR, 2 * MS_PER_HOUR).res = Err("NotFound")

(* The errors an entry point returns *)
Errors == { "InvalidInput", "NotFound", "InvalidWallet" }

(* C18: every call that returns an error (InvalidInput, NotFound or         *)
(* InvalidWallet) leaves the id counter, the employee store, the attendance *)
(* store and the approval store as they were before the call.               *)
C18_ErrorsWriteNothing ==
    /\ \A payload \in Payloads, oc \in Flags :
           LET r == add_employee(payload, oc)
           IN  r.res.tag \in Errors =>
                   /\ r.state.counter = counter
                   /\ r.state.employees = employees
                   /\ r.state.attendance = attendance
                   /\ r.state.approvals = approvals
    /\ \A nip \in Nips, ci \in CheckIns, co \in CheckOuts :
           LET r == record_attendance(nip, ci, co)
           IN  r.res.tag \in Errors =>
                   /\ r.state.counter = counter
                   /\ r.state.employees = employees
                   /\ r.state.attendance = attendance
                   /\ r.state.approvals = approvals
    /\ \A nip \in Nips, w \in Wallets :
           LET r == request_approval(nip, w)
           IN  r.res.tag \in Errors =>
                   /\ r.state.counter = counter
                   /\ r.state.employees = employees
                   /\ r.state.attendance = attendance
                   /\ r.state.approvals = approvals
    /\ \A nip \in Nips, date \in Dates, approved \in Flags :
           LET r == approve_payroll(nip, date, approved)
           IN  r.res.tag \in Errors =>
                   /\ r.state.counter = counter
                   /\ r.state.employees = employees
                   /\ r.state.attendance = attendance
                   /\ r.state.approvals = approvals

(* With all three stores filled, each error of each entry point is returned *)
C18_Witness ==
    /\ employees # << >>
    /\ attendance # << >>
    /\ approvals # << >>
    /\ \E payload \in Payloads : add_employee(payload, FALSE).res = Err("InvalidInput")
    /\ get_employee(counter) = Err("NotFound")
    /\ \E nip \in Nips : record_attendance(nip, MS_PER_HOUR, 0).res = Err("NotFound")
    /\ \E nip \in Nips : record_attendance(nip, MS_PER_HOUR, 0).res = Err("InvalidInput")
    /\ \E nip \in Nips : request_approval(nip, "not a principal").res = Err("InvalidWallet")
    /\ \E nip \in Nips : request_approval(nip, "aaaaa-aa").res = Err("NotFound")
    /\ \E nip \in Nips, date \in Dates : approve_payroll(nip, date, TRUE).res = Err("NotFound")

(* C19: in every reachable state the id counter equals the number of stored *)
(* employees, the keys of the employee store are 0 .. counter-1 with no     *)
(* gaps, the nip of each stored employee is its key, and employee_nip and   *)
(* attendance_date of each stored approval are the components of its key.   *)
C19_CounterAndKeysAgree ==
    /\ counter = Cardinality(DOMAIN employees)
    /\ DOMAIN employees = 0 .. (counter - 1)
    /\ \A n \in DOMAIN employees : employees[n].nip = n
    /\ \A k \in DOMAIN approvals :
           /\ approvals[k].employee_nip = k[1]
           /\ approvals[k].attendance_date = k[2]

(* Two employees are stored and an approval of the second has been          *)
(* decided; here a call with a bad payload is refused and one with age 61   *)
(* traps                                                                    *)
C19_Witness ==
    /\ counter = 2
    /\ LastOk("approve_payroll")
    /\ last.res.val[1].employee_nip = 1
    /\ \E payload \in Payloads : add_employee(payload, TRUE).res = Err("Trap")
    /\ \E payload \in Payloads : add_employee(payload, TRUE).res = Err("InvalidInput")

(* The keys of days before today *)
PastKeys(map, after) ==
    { k \in (DOMAIN map) \cup (DOMAIN after) : k[2] < now \div DayTicks }

(* after holds under the keys of past days what map holds *)
PastDaysKept(map, after) ==
    \A k \in PastKeys(map, after) :
        /\ Has(after, k) <=> Has(map, k)
        /\ Has(map, k) => after[k] = map[k]

(* after holds under the keys of past days what map holds, but for a        *)
(* status that has become Approved or Rejected                              *)
PastDaysKeptOrDecided(map, after) ==
    \A k \in PastKeys(map, after) :
        /\ Has(after, k) <=> Has(map, k)
        /\ Has(map, k) =>
               /\ after[k] = [map[k] EXCEPT !.status = after[k].status]
               /\ after[k] # map[k] => after[k].status \in {"Approved", "Rejected"}

(* Every call leaves the data of past days as it is, but for the status    *)
(* of the approval an approve_payroll call names                            *)
CallsKeepPastDays ==
    /\ \A payload \in Payloads, oc \in Flags :
           LET r == add_employee(payload, oc)
           IN  /\ PastDaysKept(attendance, r.state.attendance)
               /\ PastDaysKept(approvals, r.state.approvals)
    /\ \A nip \in Nips, ci \in CheckIns, co \in CheckOuts :
           LET r == record_attendance(nip, ci, co)
           IN  /\ PastDaysKept(attendance, r.state.attendance)
               /\ PastDaysKept(approvals, r.state.approvals)
    /\ \A nip \in Nips, w \in Wallets :
           LET r == request_approval(nip, w)
           IN  /\ PastDaysKept(attendance, r.state.attendance)
               /\ PastDaysKept(approvals, r.state.approvals)
    /\ \A nip \in Nips, date \in Dates, approved \in Flags :
           LET r == approve_payroll(nip, date, approved)
               after == r.state.approvals
           IN  /\ PastDaysKept(attendance, r.state.attendance)
               /\ PastDaysKeptOrDecided(approvals, after)
               /\ \A k \in PastKeys(approvals, after) :
                      after[k] # approvals[k] => k = <<nip, date>>

(* Every step leaves the data of past days as it is, but for the status of  *)
(* the approval a successful approve_payroll returns; the clock goes on     *)
StepKeepsPastDays ==
    /\ now' >= now
    /\ PastDaysKept(attendance, attendance')
    /\ PastDaysKeptOrDecided(approvals, approvals')
    /\ \A k \in PastKeys(approvals, approvals') :
           approvals'[k] # approvals[k] =>
               /\ last'.op = "approve_payroll"
               /\ last'.res.val[1] = approvals'[k]

(* C20: the clock never goes back, and once the current day is past day d   *)
(* no call and no step changes the attendance record stored under (id, d)   *)
(* or stores one, and none creates an approval for (id, d) or resets one to *)
(* Pending; the one change possible to the data of day d is approve_payroll *)
(* setting the status of a stored (id, d) approval to Approved or Rejected, *)
(* every other field staying as it was.                                     *)
C20_PastDaysAreFrozen == []CallsKeepPastDays /\ [][StepKeepsPastDays]_vars

(* The day after it was requested, an approval of day 0 has been decided:   *)
(* its status has changed and its attendance record is what it was          *)
C20_Witness ==
    /\ LastOk("approve_payroll")
    /\ last.res.val[1].attendance_date < Today
    /\ last.prev[1].status = "Pending"
    /\ \E k \in DOMAIN approvals :
           /\ k[2] < Today
           /\ approvals[k] = last.res.val[1]
           /\ approvals[k] = [last.prev[1] EXCEPT !.status = approvals[k].status]
           /\ approvals[k].status \in {"Approved", "Rejected"}
           /\ Has(attendance, k)
           /\ \A w \in PrincipalTexts : request_approval(k[1], w).res = Err("NotFound")

====
